---- MODULE Spec2Model ----
(***************************************************************************)
(* A model of the c10d TCPStore (torch/lib/c10d/TCPStore.cpp): the         *)
(* single-threaded TCPStoreDaemon with its key-value map and its wait and  *)
(* watch overlays, and the TCPStore clients that talk to it over sockets.  *)
(*                                                                         *)
(* Every request handler of the daemon is one atomic step (the daemon is   *)
(* single-threaded, so a client can only observe a handler through the     *)
(* bytes it has sent).  A send to a socket whose peer has gone either      *)
(* succeeds (the bytes are dropped) or throws; the choice is made per      *)
(* handler execution and is part of the handler's argument "env", which    *)
(* also holds the value that an overflowing int64_t addition yields.       *)
(***************************************************************************)
EXTENDS Integers, Sequences, FiniteSets

\* ------------------------------------------------------------- universe

\* "A" is the TCPStore of the server process (isServer_), "B" and "C" are
\* workers that connect later.
Clients == {"A", "B", "C"}
Workers == Clients \ {"A"}

\* Keys as the daemon sees them (regularPrefix_ + key).
Keys == {"/k", "/j"}

\* Byte vectors a client may store: the empty vector, the text "1", and a
\* vector with an embedded zero byte followed by 0xAB.
Values == {<< >>, <<49>>, <<0, 171>>}

\* The width of int64_t in the model, in bits, and the values of the type.
IntBits == 5
INT64_MAX == 2 ^ (IntBits - 1) - 1
INT64_MIN == 0 - INT64_MAX - 1
Int64 == INT64_MIN .. INT64_MAX

\* Increments a client may ADD.
Deltas == {1, -1, INT64_MAX}

\* Key lists a client may WAIT for or CHECK.
KeyLists == {<< >>, <<"/k">>, <<"/j">>, <<"/k", "/j">>, <<"/k", "/k">>}

\* Socket handles of the daemon process: accept() hands out the lowest free.
Fds == 1 .. (2 * Cardinality(Clients))

\* The value of a socket member that holds no socket.
NoFd == -1

\* The number of API calls the clients make in one run, all clients together.
MaxCalls == 3
\* The same, in the runs that exercise only WAIT, the writes and GET.
MaxWaitCalls == 4
\* The same, in the runs that exercise only ADD.
MaxAddCalls == 3
\* The same, in the runs that exercise SET, COMPARE_SET, GET and WATCH_KEY.
MaxKVCalls == 3
\* The same, in the runs that exercise WATCH_KEY and everything that writes.
MaxWatchCalls == 3
\* The same, in the runs with one writer beside the watchers.
MaxNotifyCalls == 3
\* The same, in the runs with one writer beside the waiters.
MaxWakeCalls == 3
\* The same, in the runs in which a client connects after another has gone.
MaxReuseCalls == 3

\* The same, in the runs that exercise DELETE_KEY beside SET and WATCH_KEY.
MaxDeleteCalls == 4
\* The same, in the runs that exercise CHECK beside SET, WAIT and WATCH_KEY.
MaxCheckCalls == 4
\* The same, in the runs in which a WAIT may time out.
MaxTimeoutCalls == 3
\* The same, in the runs in which a key is deleted under a reader.
MaxGetCalls == 4
\* The same, in the runs in which the server shuts the daemon down.
MaxStopCalls == 2
\* API calls in the runs that interleave watchKey with the listener thread.
MaxCallbackCalls == 3

\* The main thread of a client is in no blocking call.
NoCall == [op |-> "", key |-> "", phase |-> ""]

\* ------------------------------------------------------------- variables

VARIABLES
  tcpStore,        \* key -> value; the domain holds the present keys
  waitingSockets,  \* key -> sequence of sockets waiting for the key
  watchedSockets,  \* key -> sequence of sockets watching the key
  keysAwaited,     \* socket -> number of keys it still waits for
  sockets,         \* sockets_: the accepted sockets, in fds order
  dpc,             \* where the daemon's run() is: "poll", "query", "done"
  todo,            \* sockets with revents != 0 that queryFds has yet to query
  pipeOpen,        \* controlPipeFd_[1] != -1: stop() has not been called
  backlog,         \* connections waiting for accept(): <<client, "st"|"ls">>
  inbox,           \* socket -> requests sent by the peer, not yet read
  outbox,          \* socket -> replies and pushes sent, not yet read by peer
  peerOpen,        \* socket -> the peer's end is still open
  pc,              \* client -> where its main thread is
  call,            \* client -> the API call its main thread is blocked in
  storeSocket,     \* client -> handle of its request connection (storeSocket_)
  listenSocket,    \* client -> handle of its listen connection (listenSocket_)
  broken,          \* <<client, "st"|"ls">> whose connection the daemon closed
  keyToCallbacks,  \* client -> keys with an entry in the callback table
  ncalls,          \* API calls the clients may still make
  hWait,           \* history: socket -> the WAIT registered for it
  hAdd,            \* history: key -> running total while only ADD wrote it
  hSet,            \* history: client -> its set() that nothing has overwritten
  hWoken,          \* history: socket -> the SET/ADD that woke it
  hDel,            \* history: client -> its deleteKey calls since its set()
  hShut,           \* history: the socket accepted by the pass that left the loop
  hCb              \* history: client -> what its listener thread's last lookup did

daemonVars == <<tcpStore, waitingSockets, watchedSockets, keysAwaited, sockets,
                dpc, todo, pipeOpen>>
netVars == <<backlog, inbox, outbox, peerOpen>>
clientVars == <<pc, call, storeSocket, listenSocket, broken, keyToCallbacks, ncalls>>
histVars == <<hWait, hAdd, hSet, hWoken, hDel, hShut, hCb>>
vars == <<daemonVars, netVars, clientVars, histVars>>

\* ------------------------------------------------------------- helpers

Range(s) == {s[i] : i \in 1 .. Len(s)}

EmptyMap == [x \in {} |-> 0]

Has(m, k) == k \in DOMAIN m

\* m[k] = v of a std::unordered_map.
Put(m, k, v) == [x \in DOMAIN m \cup {k} |-> IF x = k THEN v ELSE m[x]]

\* m.erase(k)
Erase(m, k) == [x \in DOMAIN m \ {k} |-> m[x]]

RECURSIVE Without(_, _)
\* A vector with every occurrence of x erased.
Without(s, x) ==
  IF s = << >> THEN << >>
  ELSE IF Head(s) = x THEN Without(Tail(s), x)
  ELSE <<Head(s)>> \o Without(Tail(s), x)

RECURSIVE Count(_, _)
Count(s, x) ==
  IF s = << >> THEN 0
  ELSE (IF Head(s) = x THEN 1 ELSE 0) + Count(Tail(s), x)

\* ------------------------------------------------------------- std::to_string, std::stoll

RECURSIVE DecimalDigits(_)
DecimalDigits(n) ==
  IF n < 10 THEN <<48 + n>>
  ELSE Append(DecimalDigits(n \div 10), 48 + (n % 10))

\* std::to_string(int64_t): the decimal text, "-" first when negative.
to_string(n) == IF n < 0 THEN <<45>> \o DecimalDigits(0 - n) ELSE DecimalDigits(n)

IsDigit(b) == b \in 48 .. 57
IsSpace(b) == b \in {32, 9, 10, 11, 12, 13}

RECURSIVE SkipSpace(_)
SkipSpace(s) == IF s # << >> /\ IsSpace(Head(s)) THEN SkipSpace(Tail(s)) ELSE s

RECURSIVE DigitsValue(_, _)
DigitsValue(s, acc) ==
  IF s # << >> /\ IsDigit(Head(s))
  THEN DigitsValue(Tail(s), 10 * acc + (Head(s) - 48))
  ELSE acc

\* std::stoll(text): skips white space, takes a sign and the longest run of
\* digits; with no digit it throws std::invalid_argument, with a value that
\* is no long long std::out_of_range (ok = FALSE).
Stoll(text) ==
  LET s == SkipSpace(text)
      signed == s # << >> /\ Head(s) \in {45, 43}
      body == IF signed THEN Tail(s) ELSE s
      mag == DigitsValue(body, 0)
      val == IF signed /\ Head(s) = 45 THEN 0 - mag ELSE mag
  IN IF body = << >> \/ ~IsDigit(Head(body)) \/ val \notin Int64
     THEN [ok |-> FALSE, val |-> 0]
     ELSE [ok |-> TRUE, val |-> val]

\* ------------------------------------------------------------- wire messages

StopWaiting == [t |-> "STOP_WAITING"]
VecReply(v) == [t |-> "VEC", v |-> v]
IntReply(n) == [t |-> "INT", n |-> n]
CheckReply(ready) == [t |-> IF ready THEN "READY" ELSE "NOT_READY"]
KeyUpdated(key, old, new) == [t |-> "KEY_UPDATED", key |-> key, old |-> old, new |-> new]

\* ------------------------------------------------------------- daemon state as a value

\* The daemon's maps and the out-going bytes, threaded through a handler;
\* ok = FALSE once the handler has thrown (nothing after the throw runs).
DaemonState ==
  [store |-> tcpStore, waiting |-> waitingSockets, watched |-> watchedSockets,
   awaited |-> keysAwaited, out |-> outbox, ok |-> TRUE]

Throw(d) == [d EXCEPT !.ok = FALSE]

\* Sockets of the daemon whose peer has closed its end.
DeadPeers == {f \in Range(sockets) : ~peerOpen[f]}

\* tcputil::sendValue / sendVector / sendString on a socket: the bytes reach
\* the peer; on a handle that is not open, or on a peer in env.dead, it throws.
Send(d, socket, msg, env) ==
  IF ~d.ok THEN d
  ELSE IF socket \notin Range(sockets) THEN Throw(d)
  ELSE IF peerOpen[socket] THEN [d EXCEPT !.out[socket] = Append(@, msg)]
  ELSE IF socket \in env.dead THEN Throw(d)
  ELSE d

RECURSIVE WakeLoop(_, _, _)
\* The loop of wakeupWaitingClients over the sockets waiting for a key.
WakeLoop(d, list, env) ==
  IF list = << >> \/ ~d.ok THEN d
  ELSE LET socket == Head(list)
           n == (IF Has(d.awaited, socket) THEN d.awaited[socket] ELSE 0) - 1
           d1 == [d EXCEPT !.awaited = Put(@, socket, n)]
           d2 == IF n = 0 THEN Send(d1, socket, StopWaiting, env) ELSE d1
       IN WakeLoop(d2, Tail(list), env)

wakeupWaitingClients(d, key, env) ==
  IF ~d.ok \/ ~Has(d.waiting, key) THEN d
  ELSE LET r == WakeLoop(d, d.waiting[key], env)
       IN IF r.ok THEN [r EXCEPT !.waiting = Erase(@, key)] ELSE r

RECURSIVE NotifyLoop(_, _, _, _)
NotifyLoop(d, list, msg, env) ==
  IF list = << >> \/ ~d.ok THEN d
  ELSE NotifyLoop(Send(d, Head(list), msg, env), Tail(list), msg, env)

\* watchedSockets_[key] makes an empty bucket when the key has none.
sendKeyUpdatesToClients(d, key, oldData, newData, env) ==
  IF ~d.ok THEN d
  ELSE LET d1 == [d EXCEPT !.watched = IF Has(@, key) THEN @ ELSE Put(@, key, << >>)]
       IN NotifyLoop(d1, d1.watched[key], KeyUpdated(key, oldData, newData), env)

checkKeys(d, keys) == \A i \in 1 .. Len(keys) : Has(d.store, keys[i])

\* ------------------------------------------------------------- faulty handlers
\* Variants of the handlers below with one statement moved or one condition
\* dropped.  Each of them breaks one of the ordering properties stated at the
\* end of the module, which shows what the property depends on.

\* setHandler that reads the old value after it has stored the new one.
setHandlerOldAfterStore(d, socket, req, env) ==
  LET d1 == [d EXCEPT !.store = Put(@, req.key, req.val)]
      oldData == d1.store[req.key]
      d2 == wakeupWaitingClients(d1, req.key, env)
  IN sendKeyUpdatesToClients(d2, req.key, oldData, req.val, env)

\* setHandler that wakes the waiters before it stores the value.
setHandlerWakeBeforeStore(d, socket, req, env) ==
  LET oldData == IF Has(d.store, req.key) THEN d.store[req.key] ELSE << >>
      d1 == wakeupWaitingClients(d, req.key, env)
      d2 == IF d1.ok THEN [d1 EXCEPT !.store = Put(@, req.key, req.val)] ELSE d1
  IN sendKeyUpdatesToClients(d2, req.key, oldData, req.val, env)

\* compareSetHandler that notifies the watchers whenever the key is present.
compareSetHandlerNotifyAlways(d, socket, req, env) ==
  IF ~Has(d.store, req.key)
  THEN Send(d, socket, VecReply(req.expected), env)
  ELSE LET hit == d.store[req.key] = req.expected
           d1 == IF hit THEN [d EXCEPT !.store = Put(@, req.key, req.desired)] ELSE d
           d2 == sendKeyUpdatesToClients(d1, req.key, d.store[req.key],
                                         d1.store[req.key], env)
       IN Send(d2, socket, VecReply(d2.store[req.key]), env)

\* deleteHandler that looks the key up after it has erased it.
deleteHandlerCountAfterErase(d, socket, req, env) ==
  LET d1 == [d EXCEPT !.store = Erase(@, req.key)]
      numDeleted == IF Has(d1.store, req.key) THEN 1 ELSE 0
      d2 == Send(d1, socket, IntReply(numDeleted), env)
  IN IF d2.ok THEN [d2 EXCEPT !.watched = Erase(@, req.key)] ELSE d2

\* checkHandler that notes the requester as waiting when a key is absent.
checkHandlerRegisters(d, socket, req, env) ==
  IF checkKeys(d, req.keys)
  THEN Send(d, socket, CheckReply(TRUE), env)
  ELSE Send([d EXCEPT !.awaited = Put(@, socket, 1)], socket, CheckReply(FALSE), env)

\* getHandler that answers with the empty vector when the key is absent.
getHandlerEmptyOnMissing(d, socket, req, env) ==
  Send(d, socket, VecReply(IF Has(d.store, req.key) THEN d.store[req.key] ELSE << >>), env)

\* ------------------------------------------------------------- handlers

setHandler(d, socket, req, env) ==
  LET oldData == IF Has(d.store, req.key) THEN d.store[req.key] ELSE << >>
      d1 == [d EXCEPT !.store = Put(@, req.key, req.val)]
      d2 == wakeupWaitingClients(d1, req.key, env)
  IN sendKeyUpdatesToClients(d2, req.key, oldData, req.val, env)

compareSetHandler(d, socket, req, env) ==
  IF ~Has(d.store, req.key)
  THEN Send(d, socket, VecReply(req.expected), env)
  ELSE IF d.store[req.key] = req.expected
  THEN LET d1 == [d EXCEPT !.store = Put(@, req.key, req.desired)]
           d2 == sendKeyUpdatesToClients(d1, req.key, req.expected, req.desired, env)
       IN Send(d2, socket, VecReply(d2.store[req.key]), env)
  ELSE Send(d, socket, VecReply(d.store[req.key]), env)

\* addVal += stoll(...) on int64_t: the sum when it is a value of the type,
\* and otherwise (signed overflow, undefined) whatever value env.ub holds.
addHandler(d, socket, req, env) ==
  LET present == Has(d.store, req.key)
      oldData == IF present THEN d.store[req.key] ELSE << >>
      parsed == IF present THEN Stoll(oldData) ELSE [ok |-> TRUE, val |-> 0]
      sum == req.delta + parsed.val
      addVal == IF sum \in Int64 THEN sum ELSE env.ub
      newData == to_string(addVal)
      d1 == [d EXCEPT !.store = Put(@, req.key, newData)]
      d2 == Send(d1, socket, IntReply(addVal), env)
      d3 == wakeupWaitingClients(d2, req.key, env)
  IN IF ~parsed.ok THEN Throw(d)
     ELSE sendKeyUpdatesToClients(d3, req.key, oldData, newData, env)

getHandler(d, socket, req, env) ==
  IF ~Has(d.store, req.key) THEN Throw(d)
  ELSE Send(d, socket, VecReply(d.store[req.key]), env)

getNumKeysHandler(d, socket, req, env) ==
  Send(d, socket, IntReply(Cardinality(DOMAIN d.store)), env)

deleteHandler(d, socket, req, env) ==
  LET numDeleted == IF Has(d.store, req.key) THEN 1 ELSE 0
      d1 == [d EXCEPT !.store = Erase(@, req.key)]
      d2 == Send(d1, socket, IntReply(numDeleted), env)
  IN IF d2.ok THEN [d2 EXCEPT !.watched = Erase(@, req.key)] ELSE d2

checkHandler(d, socket, req, env) ==
  Send(d, socket, CheckReply(checkKeys(d, req.keys)), env)

RECURSIVE AwaitLoop(_, _, _)
\* The loop of waitHandler over the keys: the socket joins the wait list of
\* every key that is absent, once per occurrence of the key.
AwaitLoop(d, socket, keys) ==
  IF keys = << >> THEN d
  ELSE LET key == Head(keys)
           d1 == IF Has(d.store, key) THEN d
                 ELSE [d EXCEPT !.waiting =
                         Put(@, key, Append(IF Has(@, key) THEN @[key] ELSE << >>, socket)),
                       !.awaited =
                         Put(@, socket, (IF Has(@, socket) THEN @[socket] ELSE 0) + 1)]
       IN AwaitLoop(d1, socket, Tail(keys))

waitHandler(d, socket, req, env) ==
  IF checkKeys(d, req.keys)
  THEN Send(d, socket, StopWaiting, env)
  ELSE AwaitLoop([d EXCEPT !.awaited = Put(@, socket, 0)], socket, req.keys)

watchHandler(d, socket, req, env) ==
  [d EXCEPT !.watched =
     Put(@, req.key, Append(IF Has(@, req.key) THEN @[req.key] ELSE << >>, socket))]

\* The dispatch of TCPStoreDaemon::query on the opcode read from the socket.
query(d, socket, req, env) ==
  CASE req.qt = "SET" -> setHandler(d, socket, req, env)
    [] req.qt = "COMPARE_SET" -> compareSetHandler(d, socket, req, env)
    [] req.qt = "ADD" -> addHandler(d, socket, req, env)
    [] req.qt = "GET" -> getHandler(d, socket, req, env)
    [] req.qt = "CHECK" -> checkHandler(d, socket, req, env)
    [] req.qt = "WAIT" -> waitHandler(d, socket, req, env)
    [] req.qt = "GETNUMKEYS" -> getNumKeysHandler(d, socket, req, env)
    [] req.qt = "DELETE_KEY" -> deleteHandler(d, socket, req, env)
    [] req.qt = "WATCH_KEY" -> watchHandler(d, socket, req, env)
    [] OTHER -> Throw(d)

\* ScrubLists that erases only the first occurrence of the socket in a list.
ScrubListsFirstOnly(m, socket) ==
  LET first(s) == CHOOSE i \in 1 .. Len(s) :
                    s[i] = socket /\ \A j \in 1 .. (i - 1) : s[j] # socket
      cut == [k \in DOMAIN m |->
                IF socket \in Range(m[k])
                THEN SubSeq(m[k], 1, first(m[k]) - 1)
                       \o SubSeq(m[k], first(m[k]) + 1, Len(m[k]))
                ELSE m[k]]
  IN [k \in {x \in DOMAIN cut : cut[x] # << >>} |-> cut[k]]

\* One of the two scrubbing loops of queryFds' catch block: the socket is
\* erased from every list and every list left empty is erased.
ScrubLists(m, socket) ==
  LET cut == [k \in DOMAIN m |-> Without(m[k], socket)]
  IN [k \in {x \in DOMAIN cut : cut[x] # << >>} |-> cut[k]]

\* "Remove all the tracking state of the close FD".
Scrub(d, socket) ==
  [d EXCEPT !.waiting = ScrubLists(@, socket),
            !.watched = ScrubLists(@, socket),
            !.awaited = Erase(@, socket)]

\* ------------------------------------------------------------- sockets of the clients

Ends == Clients \X {"st", "ls"}

SockOf(e) == IF e[2] = "st" THEN storeSocket[e[1]] ELSE listenSocket[e[1]]

\* The client end that is connected to the daemon's socket s.
Owner(s) == CHOOSE e \in Ends : SockOf(e) = s /\ e \notin broken

\* accept() returns the lowest handle the process has not open.
LowestFree == CHOOSE f \in Fds \ Range(sockets) : \A g \in Fds \ Range(sockets) : f <= g

\* ------------------------------------------------------------- history variables

\* The request the daemon handles in a queryFds step took effect on the map.
Applied(req, d) ==
  \/ req.qt = "SET"
  \/ req.qt = "ADD" /\ (Has(tcpStore, req.key) => Stoll(tcpStore[req.key]).ok)
  \/ req.qt = "COMPARE_SET" /\ d.store # tcpStore
  \/ req.qt = "DELETE_KEY" /\ d.store # tcpStore

Wrote(req, d) == req.qt \in {"SET", "ADD"} /\ Applied(req, d)

\* STOP_WAITING reached socket f in the step from outbox to d.out.
StopSentTo(d, f) ==
  /\ Len(d.out[f]) = Len(outbox[f]) + 1
  /\ d.out[f][Len(d.out[f])] = StopWaiting

KeySet(keys) == Range(keys)

\* The empty entries of the history variables.
NoWait == [on |-> FALSE, keys |-> {}, left |-> {}]
NoVal == [on |-> FALSE, key |-> "", val |-> << >>]
NoDel == [on |-> FALSE, key |-> "", n |-> 0]

\* hWait[f]: the keys of the WAIT that socket f has registered and has not
\* been answered, and those of them that were absent then and that no SET or
\* ADD has written since.
HistWait(d, s, req, reaped) ==
  [f \in Fds |->
     IF (f = s /\ reaped) \/ StopSentTo(d, f) THEN NoWait
     ELSE IF f = s /\ req.qt = "WAIT"
     THEN [on |-> TRUE, keys |-> KeySet(req.keys),
           left |-> KeySet(req.keys) \ DOMAIN tcpStore]
     ELSE IF hWait[f].on /\ Wrote(req, d)
     THEN [hWait[f] EXCEPT !.left = @ \ {req.key}]
     ELSE hWait[f]]

\* hAdd[k]: the sum of the deltas added to k, and whether ADD alone wrote k.
HistAdd(d, req) ==
  [k \in Keys |->
     IF ~Applied(req, d) \/ req.key # k THEN hAdd[k]
     ELSE IF req.qt = "ADD" THEN [hAdd[k] EXCEPT !.sum = @ + req.delta]
     ELSE [hAdd[k] EXCEPT !.ok = FALSE]]

\* hSet[c]: the last set(key, val) of client c, until c calls anything but
\* get(key) or another connection's request changes the key.
HistSet(d, s, req) ==
  [c \in Clients |->
     IF hSet[c].on /\ Applied(req, d) /\ req.key = hSet[c].key
        /\ s # storeSocket[c]
     THEN NoVal ELSE hSet[c]]

\* hWoken[f]: the key and value of the SET that sent STOP_WAITING to f, until
\* the daemon reads f's next request or the key is changed again.
HistWoken(d, s, req, reaped) ==
  [f \in Fds |->
     IF f = s /\ reaped THEN NoVal
     ELSE IF StopSentTo(d, f) /\ req.qt = "SET"
     THEN [on |-> TRUE, key |-> req.key, val |-> req.val]
     ELSE IF f = s THEN NoVal
     ELSE IF hWoken[f].on /\ Applied(req, d) /\ req.key = hWoken[f].key THEN NoVal
     ELSE hWoken[f]]

\* hDel[c]: client c has called set(key, v) and since then deleteKey(key) n
\* times and nothing else, and no other connection's request has changed key.
HistDel(d, s, req) ==
  [c \in Clients |->
     IF hDel[c].on /\ Applied(req, d) /\ req.key = hDel[c].key
        /\ s # storeSocket[c]
     THEN NoDel ELSE hDel[c]]

\* ------------------------------------------------------------- the daemon

Ready(f) == inbox[f] # << >> \/ ~peerOpen[f]

\* The state once the TCPStore objects of the clients in "built" exist (the
\* server's first: its connections are the first two the daemon accepted) and
\* none of them has made a call yet.
InitWith(built, budget) ==
  LET order == SelectSeq(<<"A", "B", "C">>, LAMBDA c : c \in built)
      pos(c) == CHOOSE i \in 1 .. Len(order) : order[i] = c
  IN
  /\ tcpStore = EmptyMap
  /\ waitingSockets = EmptyMap
  /\ watchedSockets = EmptyMap
  /\ keysAwaited = EmptyMap
  /\ sockets = [i \in 1 .. 2 * Len(order) |-> i]
  /\ dpc = "poll"
  /\ todo = << >>
  /\ pipeOpen = TRUE
  /\ backlog = << >>
  /\ inbox = [f \in Fds |-> << >>]
  /\ outbox = [f \in Fds |-> << >>]
  /\ peerOpen = [f \in Fds |-> TRUE]
  /\ pc = [c \in Clients |-> IF c \in built THEN "idle" ELSE "init"]
  /\ call = [c \in Clients |-> NoCall]
  /\ storeSocket = [c \in Clients |-> IF c \in built THEN 2 * pos(c) - 1 ELSE NoFd]
  /\ listenSocket = [c \in Clients |-> IF c \in built THEN 2 * pos(c) ELSE NoFd]
  /\ broken = {}
  /\ keyToCallbacks = [c \in Clients |-> {}]
  /\ ncalls = budget
  /\ hWait = [f \in Fds |-> NoWait]
  /\ hAdd = [k \in Keys |-> [ok |-> TRUE, sum |-> 0]]
  /\ hSet = [c \in Clients |-> NoVal]
  /\ hWoken = [f \in Fds |-> NoVal]
  /\ hDel = [c \in Clients |-> NoDel]
  /\ hShut = NoFd
  /\ hCb = [c \in Clients |-> ""]

Init == InitWith({"A"}, MaxCalls)

\* A poll that does not have the control pipe among its descriptors.
PipeHupNever == FALSE

\* poll reports POLLHUP on the read end of the control pipe, fds[1]: the
\* write end has been closed.
PipeHup == ~pipeOpen

\* A loop that hands the ready sockets to queryFds before it looks at the
\* control pipe.
PipeCheckAfterQuery(ready) ==
  /\ todo' = ready
  /\ dpc' = IF ready # << >> THEN "query" ELSE IF PipeHup THEN "done" ELSE "poll"

\* The end of a pass of run's loop: with an event on the control pipe the
\* loop is left (finished = true; break), otherwise queryFds gets the
\* sockets that poll reported.
PipeCheck(ready) ==
  IF PipeHup
  THEN dpc' = "done" /\ todo' = << >>
  ELSE /\ todo' = ready
       /\ dpc' = IF ready = << >> THEN "poll" ELSE "query"

\* One pass of the loop of TCPStoreDaemon::run up to queryFds: poll returns,
\* a pending connection is accepted, the control pipe is examined.
LoopHead ==
  /\ dpc = "poll"
  /\ backlog # << >> \/ PipeHup \/ \E f \in Range(sockets) : Ready(f)
  /\ LET ready == SelectSeq(sockets, Ready)
         e == Head(backlog)
         fd == LowestFree
     IN /\ IF backlog # << >>
           THEN /\ sockets' = Append(sockets, fd)
                /\ backlog' = Tail(backlog)
                /\ IF e[2] = "st"
                   THEN /\ storeSocket' = [storeSocket EXCEPT ![e[1]] = fd]
                        /\ pc' = [pc EXCEPT ![e[1]] = "ctor"]
                        /\ UNCHANGED listenSocket
                   ELSE /\ listenSocket' = [listenSocket EXCEPT ![e[1]] = fd]
                        /\ pc' = [pc EXCEPT ![e[1]] = "idle"]
                        /\ UNCHANGED storeSocket
           ELSE UNCHANGED <<sockets, backlog, storeSocket, listenSocket, pc>>
        /\ PipeCheck(ready)
        /\ hShut' = IF PipeHup /\ backlog # << >> THEN fd ELSE hShut
  /\ UNCHANGED <<tcpStore, waitingSockets, watchedSockets, keysAwaited, pipeOpen,
                 inbox, outbox, peerOpen, call, broken, keyToCallbacks, ncalls,
                 hWait, hAdd, hSet, hWoken, hDel, hCb>>

\* The end of one iteration of queryFds' loop for socket s, whose handler left
\* the daemon in d: either the handler returned, or it threw and the catch
\* block closes s and scrubs it.  Abstraction: bytes the handler had already
\* queued for s before it threw (only addHandler replies before a later send
\* can throw) are dropped here with the connection, where TCP could still
\* deliver them ahead of the close; the properties about replies are
\* therefore stated for requests whose handler returned.
Finish(s, req, d) ==
  LET reaped == ~d.ok
      e == IF reaped THEN Scrub(d, s) ELSE d
  IN /\ tcpStore' = e.store
     /\ waitingSockets' = e.waiting
     /\ watchedSockets' = e.watched
     /\ keysAwaited' = e.awaited
     /\ outbox' = IF reaped THEN [e.out EXCEPT ![s] = << >>] ELSE e.out
     /\ inbox' = [inbox EXCEPT ![s] = IF reaped \/ @ = << >> THEN << >> ELSE Tail(@)]
     /\ peerOpen' = IF reaped THEN [peerOpen EXCEPT ![s] = TRUE] ELSE peerOpen
     /\ sockets' = IF reaped THEN Without(sockets, s) ELSE sockets
     /\ broken' = IF reaped THEN broken \cup {Owner(s)} ELSE broken
     /\ todo' = Tail(todo)
     /\ dpc' = IF Tail(todo) = << >> THEN "poll" ELSE "query"
     /\ hWait' = HistWait(d, s, req, reaped)
     /\ hAdd' = HistAdd(d, req)
     /\ hSet' = HistSet(d, s, req)
     /\ hWoken' = HistWoken(d, s, req, reaped)
     /\ hDel' = HistDel(d, s, req)
     /\ UNCHANGED <<pipeOpen, backlog, pc, call, storeSocket, listenSocket,
                    keyToCallbacks, ncalls, hShut, hCb>>

Cur == Head(todo)
CurReq == Head(inbox[Cur])

\* What the handler of req does not determine: the dead peers on which a
\* send throws, and the result of an int64_t addition that overflows.
Envs(req) ==
  LET sum == req.delta + Stoll(tcpStore[req.key]).val
      ubs == IF req.qt = "ADD" /\ Has(tcpStore, req.key) /\ sum \notin Int64
             THEN Int64 ELSE {0}
  IN [dead : SUBSET DeadPeers, ub : ubs]

\* queryFds reaches a socket with an event and a request of type qt to read.
Query(qt) ==
  /\ dpc = "query"
  /\ inbox[Cur] # << >>
  /\ CurReq.qt = qt
  /\ \E env \in Envs(CurReq) :
       \E d \in {query(DaemonState, Cur, CurReq, env)} : Finish(Cur, CurReq, d)

QuerySet == dpc = "query" /\ Query("SET")
QueryCompareSet == dpc = "query" /\ Query("COMPARE_SET")
QueryAdd == dpc = "query" /\ Query("ADD")
QueryGet == dpc = "query" /\ Query("GET")
QueryCheck == dpc = "query" /\ Query("CHECK")
QueryWait == dpc = "query" /\ Query("WAIT")
QueryGetNumKeys == dpc = "query" /\ Query("GETNUMKEYS")
QueryDeleteKey == dpc = "query" /\ Query("DELETE_KEY")
QueryWatchKey == dpc = "query" /\ Query("WATCH_KEY")

NoReq == [qt |-> "EOF", key |-> ""]

\* queryFds reaches a socket whose event is the peer's close: recvBytes throws.
QueryClosed ==
  /\ dpc = "query"
  /\ inbox[Cur] = << >>
  /\ Finish(Cur, NoReq, Throw(DaemonState))

\* ------------------------------------------------------------- the clients

\* The clients whose watchKey(key, cb) has returned.  A request that changes
\* a key carries this set (field w) for the statement of watch delivery; the
\* daemon does not read it.
Watching(key) == {c \in Clients : key \in keyToCallbacks[c]}

CanCall(c) == pc[c] = "idle" /\ <<c, "st">> \notin broken /\ ncalls > 0

\* The bytes of one request written to the client's request socket.
SendRequest(c, req) == inbox' = [inbox EXCEPT ![storeSocket[c]] = Append(@, req)]

\* The constructor of TCPStore connects the request socket ...
ConnectStore(c) ==
  /\ pc[c] = "init"
  /\ pc' = [pc EXCEPT ![c] = "connecting"]
  /\ backlog' = Append(backlog, <<c, "st">>)
  /\ UNCHANGED <<daemonVars, inbox, outbox, peerOpen, call, storeSocket,
                 listenSocket, broken, keyToCallbacks, ncalls, histVars>>

\* ... and then the listen socket.
ConnectListen(c) ==
  /\ pc[c] = "ctor"
  /\ pc' = [pc EXCEPT ![c] = "connecting_ls"]
  /\ backlog' = Append(backlog, <<c, "ls">>)
  /\ UNCHANGED <<daemonVars, inbox, outbox, peerOpen, call, storeSocket,
                 listenSocket, broken, keyToCallbacks, ncalls, histVars>>

\* numWorkers_ of the runs with a rendezvous: every client takes part.
NumWorkers == Cardinality(Clients)

\* The key of the rendezvous counter, initKey_; it has no regularPrefix_.
InitKey == "init/"

\* waitForWorkers that lets the server go as soon as any participant is in.
ReachedAny(n) == n >= 1

\* The test of waitForWorkers on the value read from initKey_:
\* numWorkersCompleted >= numWorkers_.
Reached(n) == n >= NumWorkers

\* waitForWorkers, first half: addHelper_(initKey_, 1) sends the ADD; the
\* reply is read in HandshakeRecv.
HandshakeAdd(c) ==
  /\ pc[c] = "ctor" /\ call[c] = NoCall
  /\ SendRequest(c, [qt |-> "ADD", key |-> InitKey, delta |-> 1, w |-> {}])
  /\ pc' = [pc EXCEPT ![c] = "hs"]
  /\ call' = [call EXCEPT ![c] = [op |-> "waitForWorkers", key |-> InitKey, phase |-> "add"]]
  /\ UNCHANGED <<daemonVars, backlog, outbox, peerOpen, storeSocket, listenSocket,
                 broken, keyToCallbacks, ncalls, histVars>>

\* waitForWorkers, a recv returns.  After the reply to the ADD a worker is
\* done; the server (isServer_) goes round its loop: getHelper_(initKey_),
\* that is WAIT, STOP_WAITING, GET and the value, then stoi of the value
\* and the test against numWorkers_, then the test of the elapsed time
\* against timeout_ (either outcome), then the sleep and the next round.
\* std::stoi is taken as std::stoll: they differ in the range they accept.
HandshakeRecv(c) ==
  /\ pc[c] = "hs" /\ <<c, "st">> \notin broken
  /\ outbox[storeSocket[c]] # << >>
  /\ outbox' = [outbox EXCEPT ![storeSocket[c]] = Tail(@)]
  /\ LET msg == Head(outbox[storeSocket[c]])
         return(how) ==
           /\ pc' = [pc EXCEPT ![c] = "ctor"]
           /\ call' = [call EXCEPT ![c].phase = how]
           /\ UNCHANGED <<inbox, peerOpen>>
         next(req, phase) ==
           /\ SendRequest(c, req)
           /\ call' = [call EXCEPT ![c].phase = phase]
           /\ UNCHANGED <<pc, peerOpen>>
         wait == [qt |-> "WAIT", keys |-> <<InitKey>>]
     IN CASE call[c].phase = "add" ->
               IF c = "A" THEN next(wait, "wait") ELSE return("done")
          [] call[c].phase = "wait" ->
               next([qt |-> "GET", key |-> InitKey], "get")
          [] call[c].phase = "get" ->
               IF ~Stoll(msg.v).ok
               THEN /\ pc' = [pc EXCEPT ![c] = "failed"]
                    /\ peerOpen' = [peerOpen EXCEPT ![storeSocket[c]] = FALSE]
                    /\ UNCHANGED <<inbox, call>>
               ELSE IF Reached(Stoll(msg.v).val) THEN return("done")
               ELSE return("timeout") \/ next(wait, "wait")
  /\ UNCHANGED <<daemonVars, backlog, storeSocket, listenSocket, broken,
                 keyToCallbacks, ncalls, histVars>>

\* What every API call leaves alone.
CallFrame == UNCHANGED <<daemonVars, backlog, outbox, peerOpen, storeSocket,
                         listenSocket, broken, hWait, hAdd, hWoken, hShut, hCb>>

\* A call that sends on the request socket and blocks in recv for the reply.
Blocking(c, req, op, key, phase) ==
  /\ CanCall(c)
  /\ SendRequest(c, req)
  /\ pc' = [pc EXCEPT ![c] = "recv"]
  /\ call' = [call EXCEPT ![c] = [op |-> op, key |-> key, phase |-> phase]]
  /\ ncalls' = ncalls - 1
  /\ hSet' = [hSet EXCEPT ![c] = IF op = "get" /\ @.key = key THEN @ ELSE NoVal]
  /\ hDel' = [hDel EXCEPT ![c] = IF op = "deleteKey" /\ @.on /\ @.key = key /\ @.n < 2
                                 THEN [@ EXCEPT !.n = @ + 1] ELSE NoDel]
  /\ UNCHANGED keyToCallbacks
  /\ CallFrame

Set(c, key, val) ==
  /\ CanCall(c)
  /\ SendRequest(c, [qt |-> "SET", key |-> key, val |-> val, w |-> Watching(key)])
  /\ ncalls' = ncalls - 1
  /\ hSet' = [hSet EXCEPT ![c] = [on |-> TRUE, key |-> key, val |-> val]]
  /\ hDel' = [hDel EXCEPT ![c] = [on |-> TRUE, key |-> key, n |-> 0]]
  /\ UNCHANGED <<pc, call, keyToCallbacks>>
  /\ CallFrame

CompareSet(c, key, expected, desired) ==
  CanCall(c) /\
  Blocking(c, [qt |-> "COMPARE_SET", key |-> key, expected |-> expected,
               desired |-> desired, w |-> Watching(key)], "compareSet", key, "")

\* get: waitHelper_ for the key first, the GET follows in RecvReply.
Get(c, key) ==
  CanCall(c) /\ Blocking(c, [qt |-> "WAIT", keys |-> <<key>>], "get", key, "wait")

Add(c, key, delta) ==
  CanCall(c) /\
  Blocking(c, [qt |-> "ADD", key |-> key, delta |-> delta, w |-> Watching(key)],
           "add", key, "")

DeleteKey(c, key) ==
  CanCall(c) /\ Blocking(c, [qt |-> "DELETE_KEY", key |-> key], "deleteKey", key, "")

GetNumKeys(c) ==
  CanCall(c) /\ Blocking(c, [qt |-> "GETNUMKEYS"], "getNumKeys", "", "")

Check(c, keys) ==
  CanCall(c) /\ Blocking(c, [qt |-> "CHECK", keys |-> keys], "check", "", "")

Wait(c, keys) ==
  CanCall(c) /\ Blocking(c, [qt |-> "WAIT", keys |-> keys], "wait", "", "")

\* watchKey: the callback is stored, then WATCH_KEY goes out on the listen
\* socket; nothing is read back.
WatchKey(c, key) ==
  /\ pc[c] = "idle" /\ <<c, "ls">> \notin broken /\ ncalls > 0
  /\ keyToCallbacks' = [keyToCallbacks EXCEPT ![c] = @ \cup {key}]
  /\ inbox' = [inbox EXCEPT ![listenSocket[c]] = Append(@, [qt |-> "WATCH_KEY", key |-> key])]
  /\ ncalls' = ncalls - 1
  /\ hSet' = [hSet EXCEPT ![c] = NoVal]
  /\ hDel' = [hDel EXCEPT ![c] = NoDel]
  /\ UNCHANGED <<pc, call>>
  /\ CallFrame

\* The recv a blocking call waits in returns.  In get, the STOP_WAITING of
\* waitHelper_ is followed by the GET and a second recv.
RecvReply(c) ==
  /\ pc[c] = "recv" /\ <<c, "st">> \notin broken
  /\ outbox[storeSocket[c]] # << >>
  /\ outbox' = [outbox EXCEPT ![storeSocket[c]] = Tail(@)]
  /\ IF call[c].op = "get" /\ call[c].phase = "wait"
     THEN /\ SendRequest(c, [qt |-> "GET", key |-> call[c].key])
          /\ call' = [call EXCEPT ![c].phase = "get"]
          /\ UNCHANGED pc
     ELSE /\ pc' = [pc EXCEPT ![c] = "idle"]
          /\ call' = [call EXCEPT ![c] = NoCall]
          /\ UNCHANGED inbox
  /\ UNCHANGED <<daemonVars, backlog, peerOpen, storeSocket, listenSocket, broken,
                 keyToCallbacks, ncalls, histVars>>

\* ListenThread::run reads one KEY_UPDATED frame and calls the callback.
Listen(c) ==
  /\ pc[c] \in {"idle", "recv"} /\ <<c, "ls">> \notin broken
  /\ outbox[listenSocket[c]] # << >>
  /\ outbox' = [outbox EXCEPT ![listenSocket[c]] = Tail(@)]
  /\ UNCHANGED <<daemonVars, backlog, inbox, peerOpen, clientVars, histVars>>

\* watchKey in the steps of the main thread.  First ListenThread::addCallback
\* is entered: keyToCallbacks_[key] = cb is under way, the table is being
\* written.
AddCallback(c, key) ==
  /\ pc[c] = "idle" /\ <<c, "ls">> \notin broken /\ ncalls > 0
  /\ pc' = [pc EXCEPT ![c] = "addCallback"]
  /\ call' = [call EXCEPT ![c] = [op |-> "watchKey", key |-> key, phase |-> ""]]
  /\ ncalls' = ncalls - 1
  /\ hSet' = [hSet EXCEPT ![c] = NoVal]
  /\ hDel' = [hDel EXCEPT ![c] = NoDel]
  /\ UNCHANGED <<inbox, keyToCallbacks>>
  /\ CallFrame

\* addCallback returns: the entry is in the table.
AddCallbackDone(c) ==
  /\ pc[c] = "addCallback"
  /\ keyToCallbacks' = [keyToCallbacks EXCEPT ![c] = @ \cup {call[c].key}]
  /\ pc' = [pc EXCEPT ![c] = "published"]
  /\ UNCHANGED <<daemonVars, netVars, call, storeSocket, listenSocket, broken,
                 ncalls, histVars>>

\* The rest of watchKey: WATCH_KEY and the key go out on the listen socket.
SendWatchKey(c) ==
  /\ pc[c] = "published"
  /\ inbox' = [inbox EXCEPT ![listenSocket[c]] =
                 Append(@, [qt |-> "WATCH_KEY", key |-> call[c].key])]
  /\ pc' = [pc EXCEPT ![c] = "idle"]
  /\ call' = [call EXCEPT ![c] = NoCall]
  /\ UNCHANGED <<daemonVars, backlog, outbox, peerOpen, storeSocket, listenSocket,
                 broken, keyToCallbacks, ncalls, histVars>>

\* ListenThread::callbackHandler on the listener thread: one KEY_UPDATED
\* frame is read and keyToCallbacks_.at(key) is called.  The table has no
\* lock: a lookup while the main thread is inside addCallback is a data
\* race, and it may find the entry or not.  When at() finds nothing it
\* throws out of the thread function and the process ends, which closes both
\* of its connections.
CallbackHandler(c) ==
  /\ pc[c] \in {"idle", "recv", "addCallback", "published"}
  /\ <<c, "ls">> \notin broken
  /\ outbox[listenSocket[c]] # << >>
  /\ LET key == Head(outbox[listenSocket[c]]).key
         mine == {SockOf(e) : e \in {<<c, "st">>, <<c, "ls">>} \ broken}
     IN \E found \in IF pc[c] = "addCallback" THEN BOOLEAN
                     ELSE {key \in keyToCallbacks[c]} :
          IF found
          THEN /\ outbox' = [outbox EXCEPT ![listenSocket[c]] = Tail(@)]
               /\ hCb' = [hCb EXCEPT ![c] = "called"]
               /\ UNCHANGED <<peerOpen, pc, call>>
          ELSE /\ peerOpen' = [f \in Fds |-> IF f \in mine THEN FALSE ELSE peerOpen[f]]
               /\ outbox' = [f \in Fds |-> IF f \in mine THEN << >> ELSE outbox[f]]
               /\ pc' = [pc EXCEPT ![c] = "closed"]
               /\ call' = [call EXCEPT ![c] = NoCall]
               /\ hCb' = [hCb EXCEPT ![c] = "out_of_range"]
  /\ UNCHANGED <<daemonVars, backlog, inbox, storeSocket, listenSocket, broken,
                 keyToCallbacks, ncalls, hWait, hAdd, hSet, hWoken, hDel, hShut>>

\* The receive timeout that waitHelper_ has set on the request socket fires
\* while the client is blocked in the recv of STOP_WAITING: the receive fails
\* and the request connection is torn down.  The listen connection stays.
Timeout(c) ==
  /\ pc[c] = "recv" /\ <<c, "st">> \notin broken
  /\ call[c].op = "wait" \/ (call[c].op = "get" /\ call[c].phase = "wait")
  /\ outbox[storeSocket[c]] = << >>
  /\ peerOpen' = [peerOpen EXCEPT ![storeSocket[c]] = FALSE]
  /\ pc' = [pc EXCEPT ![c] = "timedout"]
  /\ call' = [call EXCEPT ![c] = NoCall]
  /\ UNCHANGED <<daemonVars, backlog, inbox, outbox, storeSocket, listenSocket,
                 broken, keyToCallbacks, ncalls, histVars>>

\* A worker's TCPStore goes away (its destructor, or the end of its process):
\* the listen socket and the request socket are closed.
Close(c) ==
  /\ c \in Workers
  /\ pc[c] \in {"idle", "recv"}
  /\ LET mine == {SockOf(e) : e \in {<<c, "st">>, <<c, "ls">>} \ broken}
     IN /\ peerOpen' = [f \in Fds |-> IF f \in mine THEN FALSE ELSE peerOpen[f]]
        /\ outbox' = [f \in Fds |-> IF f \in mine THEN << >> ELSE outbox[f]]
  /\ pc' = [pc EXCEPT ![c] = "closed"]
  /\ call' = [call EXCEPT ![c] = NoCall]
  /\ UNCHANGED <<daemonVars, backlog, inbox, storeSocket, listenSocket, broken,
                 keyToCallbacks, ncalls, histVars>>

\* BackgroundThread::stop, called by ~BackgroundThread when the server's
\* TCPStore lets go of the daemon: the write end of the control pipe is
\* closed unless it has been closed already.  pc tells the first call from
\* a second one.
Stop ==
  /\ pc["A"] \in {"idle", "stop"}
  /\ pipeOpen' = (IF pipeOpen THEN FALSE ELSE pipeOpen)
  /\ pc' = [pc EXCEPT !["A"] = IF @ = "idle" THEN "stop" ELSE "stop again"]
  /\ UNCHANGED <<tcpStore, waitingSockets, watchedSockets, keysAwaited, sockets,
                 dpc, todo, netVars, call, storeSocket, listenSocket, broken,
                 keyToCallbacks, ncalls, histVars>>

\* The rest of ~BackgroundThread: join() returns once run() has returned,
\* then every socket in sockets_ is closed.
Join ==
  /\ pc["A"] \in {"stop", "stop again"}
  /\ dpc = "done"
  /\ sockets' = << >>
  /\ broken' = broken \cup {Owner(s) : s \in Range(sockets)}
  /\ pc' = [pc EXCEPT !["A"] = "joined"]
  /\ UNCHANGED <<tcpStore, waitingSockets, watchedSockets, keysAwaited, dpc, todo,
                 pipeOpen, netVars, call, storeSocket, listenSocket,
                 keyToCallbacks, ncalls, histVars>>

\* ------------------------------------------------------------- specifications

Daemon ==
  \/ LoopHead
  \/ QuerySet \/ QueryCompareSet \/ QueryAdd \/ QueryGet \/ QueryCheck
  \/ QueryWait \/ QueryGetNumKeys \/ QueryDeleteKey \/ QueryWatchKey
  \/ QueryClosed

Lifecycle(c) == ConnectStore(c) \/ ConnectListen(c) \/ RecvReply(c) \/ Listen(c) \/ Close(c)

Next ==
  \/ Daemon
  \/ \E c \in Clients :
       \/ Lifecycle(c)
       \/ \E key \in Keys :
            \/ \E val \in Values : Set(c, key, val)
            \/ \E e \in Values, v \in Values : CompareSet(c, key, e, v)
            \/ Get(c, key)
            \/ \E delta \in Deltas : Add(c, key, delta)
            \/ DeleteKey(c, key)
            \/ WatchKey(c, key)
       \/ GetNumKeys(c)
       \/ \E keys \in KeyLists : Check(c, keys) \/ Wait(c, keys)

Spec == Init /\ [][Next]_vars

\* ------------------------------------------------------------- WAIT, the writes and GET

DaemonWait ==
  \/ LoopHead
  \/ QuerySet \/ QueryAdd \/ QueryGet \/ QueryWait \/ QueryDeleteKey
  \/ QueryClosed

InitWait == InitWith({"A", "B"}, MaxWaitCalls)

NextWait ==
  \/ DaemonWait
  \/ \E c \in {"A", "B"} :
       \/ RecvReply(c) \/ Close(c)
       \/ \E key \in Keys :
            \/ \E val \in {<<49>>} : Set(c, key, val)
            \/ Get(c, key)
            \/ Add(c, key, 1)
            \/ DeleteKey(c, key)
       \/ \E keys \in KeyLists : Wait(c, keys)

SpecWait == InitWait /\ [][NextWait]_vars

\* ------------------------------------------------------------- ADD alone

DaemonAdd == LoopHead \/ QueryAdd \/ QueryClosed

InitAdd == InitWith({"A", "B"}, MaxAddCalls)

NextAdd ==
  \/ DaemonAdd
  \/ \E c \in {"A", "B"} :
       \/ RecvReply(c) \/ Close(c)
       \/ \E key \in Keys, delta \in Deltas : Add(c, key, delta)

SpecAdd == InitAdd /\ [][NextAdd]_vars

\* ------------------------------------------------------------- SET, COMPARE_SET, GET beside a watcher

DaemonKV ==
  \/ LoopHead
  \/ QuerySet \/ QueryCompareSet \/ QueryWait \/ QueryGet \/ QueryWatchKey
  \/ QueryClosed

InitKV == InitWith({"A", "B"}, MaxKVCalls)

NextKV ==
  \/ DaemonKV
  \/ \E c \in {"A", "B"} :
       \/ RecvReply(c) \/ Listen(c) \/ Close(c)
       \/ \E key \in Keys :
            \/ \E val \in Values : Set(c, key, val)
            \/ \E e \in Values, v \in Values : CompareSet(c, key, e, v)
            \/ Get(c, key)
            \/ WatchKey(c, key)

SpecKV == InitKV /\ [][NextKV]_vars

\* ------------------------------------------------------------- WATCH_KEY and the writes

DaemonWatch ==
  \/ LoopHead
  \/ QuerySet \/ QueryCompareSet \/ QueryAdd \/ QueryDeleteKey \/ QueryWatchKey
  \/ QueryClosed

InitWatch == InitWith({"A", "B"}, MaxWatchCalls)

\* The text "1" is what an ADD stores first; COMPARE_SET expects it.
NextWatch ==
  \/ DaemonWatch
  \/ \E c \in {"A", "B"} :
       \/ RecvReply(c) \/ Listen(c) \/ Close(c)
       \/ \E key \in Keys :
            \/ \E val \in {<< >>, <<49>>} : Set(c, key, val)
            \/ CompareSet(c, key, <<49>>, <<0, 171>>)
            \/ Add(c, key, 1)
            \/ DeleteKey(c, key)
            \/ WatchKey(c, key)

SpecWatch == InitWatch /\ [][NextWatch]_vars

\* ------------------------------------------------------------- one writer beside the watchers

InitNotify == InitWith({"A", "B"}, MaxNotifyCalls)

NextNotify ==
  \/ DaemonWatch
  \/ \E c \in {"A", "B"} :
       \/ RecvReply(c) \/ Listen(c) \/ Close(c)
       \/ \E key \in Keys : WatchKey(c, key)
  \/ \E key \in Keys :
       \/ \E val \in {<< >>, <<49>>} : Set("A", key, val)
       \/ CompareSet("A", key, <<49>>, <<0, 171>>)
       \/ Add("A", key, 1)
       \/ DeleteKey("A", key)

SpecNotify == InitNotify /\ [][NextNotify]_vars

\* ------------------------------------------------------------- one writer beside the waiters

DaemonWake ==
  \/ LoopHead
  \/ QuerySet \/ QueryAdd \/ QueryWait \/ QueryGet
  \/ QueryClosed

InitWake == InitWith({"A", "B", "C"}, MaxWakeCalls)

\* A and B wait and read, C writes; B may go away at any time.
NextWake ==
  \/ DaemonWake
  \/ \E c \in {"A", "B"} :
       \/ RecvReply(c) \/ Close(c)
       \/ \E key \in Keys : Get(c, key)
       \/ \E keys \in KeyLists \ {<< >>, <<"/j">>} : Wait(c, keys)
  \/ RecvReply("C")
  \/ \E key \in Keys :
       \/ \E val \in {<<49>>, <<0, 171>>} : Set("C", key, val)
       \/ Add("C", key, 1)

SpecWake == InitWake /\ [][NextWake]_vars

\* ------------------------------------------------------------- a client connects after another has gone

DaemonReuse ==
  \/ LoopHead
  \/ QuerySet \/ QueryWait \/ QueryWatchKey
  \/ QueryClosed

InitReuse == InitWith({"A", "B"}, MaxReuseCalls)

\* B waits or watches and goes away; C connects at any time and waits; A
\* writes.
NextReuse ==
  \/ DaemonReuse
  \/ \E c \in Clients : RecvReply(c) \/ Listen(c) \/ Close(c)
  \/ ConnectStore("C") \/ ConnectListen("C")
  \/ \E c \in {"B", "C"} : \E keys \in KeyLists \ {<< >>, <<"/j">>} : Wait(c, keys)
  \/ \E key \in Keys : WatchKey("B", key) \/ Set("A", key, <<49>>)

SpecReuse == InitReuse /\ [][NextReuse]_vars

\* ------------------------------------------------------------- DELETE_KEY beside SET and WATCH_KEY

DaemonDelete ==
  \/ LoopHead
  \/ QuerySet \/ QueryDeleteKey \/ QueryWatchKey
  \/ QueryClosed

InitDelete == InitWith({"A", "B"}, MaxDeleteCalls)

\* A and B set and delete; B may watch a key and may go away.
NextDelete ==
  \/ DaemonDelete
  \/ \E c \in {"A", "B"} :
       \/ RecvReply(c) \/ Listen(c) \/ Close(c)
       \/ \E key \in Keys : Set(c, key, <<49>>) \/ DeleteKey(c, key)
  \/ WatchKey("B", "/k")

SpecDelete == InitDelete /\ [][NextDelete]_vars

\* ------------------------------------------------------------- CHECK beside SET, WAIT and WATCH_KEY

DaemonCheck ==
  \/ LoopHead
  \/ QuerySet \/ QueryCheck \/ QueryWait \/ QueryWatchKey
  \/ QueryClosed

InitCheck == InitWith({"A", "B"}, MaxCheckCalls)

\* A and B check and set; B may wait or watch and may go away.
NextCheck ==
  \/ DaemonCheck
  \/ \E c \in {"A", "B"} :
       \/ RecvReply(c) \/ Listen(c) \/ Close(c)
       \/ \E key \in Keys : Set(c, key, <<49>>)
       \/ \E keys \in KeyLists : Check(c, keys)
  \/ \E keys \in {<<"/k">>, <<"/k", "/j">>} : Wait("B", keys)
  \/ WatchKey("B", "/k")

SpecCheck == InitCheck /\ [][NextCheck]_vars

\* ------------------------------------------------------------- a WAIT times out

DaemonTimeout ==
  \/ LoopHead
  \/ QuerySet \/ QueryAdd \/ QueryWait \/ QueryGet
  \/ QueryClosed

InitTimeout == InitWith({"A", "B", "C"}, MaxTimeoutCalls)

\* Every client waits, reads and writes; no client goes away, so a connection
\* is closed at the client's end only by a timeout.
NextTimeout ==
  \/ DaemonTimeout
  \/ \E c \in Clients :
       \/ RecvReply(c) \/ Timeout(c)
       \/ \E key \in Keys : Get(c, key) \/ Set(c, key, <<49>>) \/ Add(c, key, 1)
       \/ \E keys \in {<<"/k">>, <<"/k", "/j">>} : Wait(c, keys)

SpecTimeout == InitTimeout /\ [][NextTimeout]_vars

\* ------------------------------------------------------------- a key is deleted under a reader

DaemonGet ==
  \/ LoopHead
  \/ QuerySet \/ QueryDeleteKey \/ QueryWait \/ QueryGet
  \/ QueryClosed

InitGet == InitWith({"A", "B", "C"}, MaxGetCalls)

\* A sets and deletes, B reads, C waits and may go away.
NextGet ==
  \/ DaemonGet
  \/ \E c \in Clients : RecvReply(c)
  \/ Close("C")
  \/ \E key \in Keys : Set("A", key, <<49>>) \/ DeleteKey("A", key) \/ Get("B", key)
  \/ \E keys \in {<<"/j">>, <<"/k", "/j">>} : Wait("C", keys)

SpecGet == InitGet /\ [][NextGet]_vars

\* ------------------------------------------------------------- the server shuts the daemon down

DaemonStop ==
  \/ LoopHead
  \/ QuerySet \/ QueryWait
  \/ QueryClosed

InitStop == InitWith({"A", "B"}, MaxStopCalls)

\* A and B set and wait, B may go away, C connects at any time, and the
\* server's TCPStore may be destroyed at any time it is in no call.
NextStop ==
  \/ DaemonStop
  \/ \E c \in {"A", "B"} :
       \/ RecvReply(c) \/ Close(c)
       \/ Set(c, "/k", <<49>>)
       \/ Wait(c, <<"/k">>)
  \/ ConnectStore("C") \/ ConnectListen("C")
  \/ Stop \/ Join

SpecLoop == InitStop /\ [][NextStop]_vars

\* The daemon thread is not starved: whenever its poll can return or a
\* socket is left to query, it takes its next step.
SpecStop == SpecLoop /\ WF_vars(DaemonStop)

\* ------------------------------------------------------------- the rendezvous of the constructors

DaemonRendezvous ==
  \/ LoopHead
  \/ QueryAdd \/ QueryWait \/ QueryGet

\* No TCPStore exists yet; the daemon of the server process is running.
InitRendezvous == InitWith({}, 0)

\* Every client constructs its TCPStore with numWorkers and waitWorkers set:
\* request connection, waitForWorkers, listen connection.
NextRendezvous ==
  \/ DaemonRendezvous
  \/ \E c \in Clients :
       \/ ConnectStore(c)
       \/ HandshakeAdd(c)
       \/ HandshakeRecv(c)
       \/ call[c].phase \in {"done", "timeout"} /\ ConnectListen(c)

\* The daemon thread and the server's main thread are not starved.
SpecRendezvous ==
  InitRendezvous /\ [][NextRendezvous]_vars
    /\ WF_vars(DaemonRendezvous) /\ WF_vars(HandshakeRecv("A"))

\* ------------------------------------------------------------- watchKey beside the listener thread

DaemonCallback ==
  \/ LoopHead
  \/ QuerySet \/ QueryWatchKey
  \/ QueryClosed

InitCallback == InitWith({"A", "B"}, MaxCallbackCalls)

\* A sets keys; B subscribes to keys, its main thread inside watchKey while
\* its listener thread reads what the daemon pushes.
NextCallback ==
  \/ DaemonCallback
  \/ \E key \in Keys :
       \/ Set("A", key, <<49>>)
       \/ AddCallback("B", key)
  \/ AddCallbackDone("B") \/ SendWatchKey("B")
  \/ CallbackHandler("B")

SpecCallback == InitCallback /\ [][NextCallback]_vars

\* ------------------------------------------------------------- reading a step

\* The step is one iteration of queryFds' loop, for socket Cur.
QueryStep == dpc = "query" /\ todo' = Tail(todo)

\* The request that iteration reads (NoReq: the peer has closed).
ReqNow == IF inbox[Cur] = << >> THEN NoReq ELSE CurReq

\* The step is a SET or an ADD that stored a value under key.
WroteNow(key) ==
  /\ QueryStep
  /\ ReqNow.qt \in {"SET", "ADD"}
  /\ ReqNow.key = key
  /\ ReqNow.qt = "ADD" => (Has(tcpStore, key) => Stoll(tcpStore[key]).ok)

\* The step sent STOP_WAITING to socket f.
StopSentNow(f) ==
  /\ Len(outbox'[f]) = Len(outbox[f]) + 1
  /\ outbox'[f][Len(outbox'[f])] = StopWaiting

\* Socket f is open in the daemon and its peer is there to read.
Live(f) == f \in Range(sockets) /\ peerOpen[f]

\* ------------------------------------------------------------- C1

\* The answer to a WAIT is due in this step: the WAIT is read with every key
\* present, or the step writes the last key that was absent at the WAIT and
\* has not been written since.
WaitDue(f) ==
  \/ ReqNow.qt = "WAIT" /\ f = Cur /\ KeySet(ReqNow.keys) \subseteq DOMAIN tcpStore
  \/ hWait[f].on /\ \E key \in Keys : WroteNow(key) /\ hWait[f].left \subseteq {key}

\* C1 (WAIT correctness): STOP_WAITING is sent to a socket in exactly the
\* steps in which the answer to its WAIT is due: at once when no key was
\* absent, otherwise in the step of the SET or ADD that writes the last key
\* that was absent at the WAIT; never earlier and never later.
C1_WaitCorrect ==
  [][QueryStep => \A f \in Fds : Live(f) => (StopSentNow(f) <=> WaitDue(f))]_vars

\* ------------------------------------------------------------- C7

\* C7 (wait is a barrier on values): when STOP_WAITING is sent to a socket,
\* every key named in its WAIT is present in the store.
C7_WaitBarrier ==
  [][QueryStep =>
       \A f \in Fds :
         StopSentNow(f) =>
           LET named == IF f = Cur /\ ReqNow.qt = "WAIT" THEN KeySet(ReqNow.keys)
                        ELSE hWait[f].keys
           IN named \subseteq DOMAIN tcpStore']_vars

\* ------------------------------------------------------------- C2

\* The step handled a request of socket Cur without closing the socket.
Served == QueryStep /\ Cur \in Range(sockets')

\* C2 (ADD semantics): on a key that only ADD has written, the ADD the daemon
\* handles stores the decimal string of the sum of all deltas applied so far,
\* this one included, and that sum is the reply the requester is sent.
C2_AddRunningTotal ==
  [][QueryStep /\ ReqNow.qt = "ADD" /\ hAdd[ReqNow.key].ok =>
       LET total == hAdd[ReqNow.key].sum + ReqNow.delta
       IN /\ Has(tcpStore', ReqNow.key)
          /\ tcpStore'[ReqNow.key] = to_string(total)
          /\ Live(Cur) /\ Served =>
                outbox'[Cur] = Append(outbox[Cur], IntReply(total))]_vars

\* ------------------------------------------------------------- C3

\* The daemon answers the request of the live socket Cur with msg.
Replies(msg) == Served /\ outbox'[Cur] = Append(outbox[Cur], msg)

\* C3 (key-value round trip): a client that has called set(key, val), and
\* since then nothing but get(key), while no other connection changed the
\* key, keeps its connection and is sent exactly val in answer to its GET.
C3_RoundTrip ==
  [][\A c \in Clients :
       hSet[c].on /\ pc[c] # "closed" =>
         /\ <<c, "st">> \notin broken'
         /\ QueryStep /\ ReqNow.qt = "GET" /\ Cur = storeSocket[c]
              /\ ReqNow.key = hSet[c].key
              => Replies(VecReply(hSet[c].val))]_vars

\* ------------------------------------------------------------- C5

\* The store holds the same value, or none, under key before and after.
Same(key) ==
  /\ Has(tcpStore', key) <=> Has(tcpStore, key)
  /\ Has(tcpStore, key) => tcpStore'[key] = tcpStore[key]

\* C5 (compare-set fixed point): COMPARE_SET(k, e, d) from a live socket is
\* answered with e when k is absent and with the stored value when that
\* differs from e, leaving k as it was, and with d when k holds e, leaving
\* k = d; no other key changes.
C5_CompareSet ==
  [][QueryStep /\ ReqNow.qt = "COMPARE_SET" =>
       LET k == ReqNow.key
           e == ReqNow.expected
           hit == Has(tcpStore, k) /\ tcpStore[k] = e
           answer == IF ~Has(tcpStore, k) THEN e
                     ELSE IF hit THEN ReqNow.desired ELSE tcpStore[k]
       IN /\ IF hit THEN Has(tcpStore', k) /\ tcpStore'[k] = ReqNow.desired
             ELSE Same(k)
          /\ \A j \in Keys \ {k} : Same(j)
          /\ Live(Cur) => Replies(VecReply(answer))]_vars

\* ------------------------------------------------------------- C4

\* The value under key before the step, as a notification reports it.
OldNow(key) == IF Has(tcpStore, key) THEN tcpStore[key] ELSE << >>

\* The step is a SET, a COMPARE_SET that matched or an ADD that changes key.
MutatesNow(key) ==
  \/ WroteNow(key)
  \/ /\ QueryStep /\ ReqNow.qt = "COMPARE_SET" /\ ReqNow.key = key
     /\ Has(tcpStore, key) /\ tcpStore[key] = ReqNow.expected

\* The listen socket of client c is connected at both ends.
Listening(c) ==
  /\ pc[c] \in {"idle", "recv"}
  /\ <<c, "ls">> \notin broken
  /\ listenSocket[c] \in Range(sockets)

\* C4 (watch delivery): a mutation of key by SET, matching COMPARE_SET or
\* ADD that was issued after watchKey(key, cb) had returned on client c
\* pushes exactly one KEY_UPDATED(key, old, new) to c's listen socket.
C4_WatchDelivery ==
  [][\A key \in Keys :
       MutatesNow(key) =>
         \A c \in ReqNow.w :
           Listening(c) =>
             outbox'[listenSocket[c]] =
               Append(outbox[listenSocket[c]],
                      KeyUpdated(key, OldNow(key), tcpStore'[key]))]_vars

\* ------------------------------------------------------------- C9

\* The messages the step queued for the peer of socket f.
Pushed(f) ==
  IF Len(outbox'[f]) > Len(outbox[f])
  THEN SubSeq(outbox'[f], Len(outbox[f]) + 1, Len(outbox'[f]))
  ELSE << >>

\* C9 (watch ordering and payload): what the daemon pushes to a socket is
\* queued behind what it pushed before, so notifications are read in the
\* order in which the mutations were handled; and every KEY_UPDATED pushed
\* carries the key of the request, the value stored under it immediately
\* before the step (empty if absent) and the value stored by the step.  The
\* value stored before a mutation is the one the previous mutation stored
\* unless a DELETE_KEY came between, so consecutive notifications chain.
C9_WatchPayload ==
  [][QueryStep =>
       \A f \in Range(sockets') :
         /\ SubSeq(outbox'[f], 1, Len(outbox[f])) = outbox[f]
         /\ \A i \in 1 .. Len(Pushed(f)) :
              Pushed(f)[i].t = "KEY_UPDATED" =>
                Pushed(f)[i] = KeyUpdated(ReqNow.key, OldNow(ReqNow.key),
                                          tcpStore'[ReqNow.key])]_vars

\* A watcher has two notifications of one key to read, the second of which
\* starts from the value the first ended with.
C9_Witness ==
  \E f \in Range(sockets) :
    /\ Len(outbox[f]) = 2
    /\ outbox[f][1].t = "KEY_UPDATED" /\ outbox[f][2].t = "KEY_UPDATED"
    /\ outbox[f][1].key = outbox[f][2].key
    /\ outbox[f][1].old = << >> /\ outbox[f][1].new # << >>
    /\ outbox[f][2].old = outbox[f][1].new
    /\ outbox[f][2].new # outbox[f][1].new

\* ------------------------------------------------------------- C10

\* C10 (no spurious watch notification): a KEY_UPDATED is pushed only in the
\* step of a SET, an ADD or a COMPARE_SET whose expected value matched, and
\* names the key of that request; a COMPARE_SET on an absent key or with
\* another expected value, a DELETE_KEY and every other step push none.
C10_NoSpuriousUpdate ==
  [][\A f \in Fds :
       \A i \in 1 .. Len(Pushed(f)) :
         Pushed(f)[i].t = "KEY_UPDATED" =>
           /\ QueryStep
           /\ ReqNow.qt \in {"SET", "ADD", "COMPARE_SET"}
           /\ Pushed(f)[i].key = ReqNow.key
           /\ MutatesNow(ReqNow.key)]_vars

\* A COMPARE_SET whose expected value differs from the stored one has been
\* answered while a watcher of the key was connected, and the watcher has
\* only the notification of the SET before it.
C10_Witness ==
  \E key \in Keys :
    /\ pc["A"] = "recv" /\ call["A"].op = "compareSet" /\ call["A"].key = key
    /\ outbox[storeSocket["A"]] = <<VecReply(<< >>)>>
    /\ Has(tcpStore, key) /\ tcpStore[key] = << >>
    /\ Has(watchedSockets, key)
    /\ \E f \in Range(watchedSockets[key]) :
         peerOpen[f] /\ outbox[f] = <<KeyUpdated(key, << >>, << >>)>>

\* ------------------------------------------------------------- C8

\* The values the request read in this step may store under its key: the
\* value of a SET, the decimal text of the sum of an ADD.
NewValues ==
  LET sum == ReqNow.delta + (IF Has(tcpStore, ReqNow.key)
                             THEN Stoll(tcpStore[ReqNow.key]).val ELSE 0)
  IN IF ReqNow.qt = "SET" THEN {ReqNow.val}
     ELSE IF sum \in Int64 THEN {to_string(sum)}
     ELSE {to_string(n) : n \in Int64}

\* C8 (wake-after-store ordering): whenever the SET or ADD of a key sends
\* STOP_WAITING to a waiter, its new value is in the map, whatever happens
\* to the rest of the handler; and the GET of that key that a waiter woken
\* by SET(key, val) sends as its next request, the key not having been
\* changed in between, is answered with val if the waiter is still there.
C8_WakeAfterStore ==
  [][QueryStep =>
       /\ \A key \in Keys, f \in Fds :
            WroteNow(key) /\ StopSentNow(f) =>
              Has(tcpStore', key) /\ tcpStore'[key] \in NewValues
       /\ ReqNow.qt = "GET" /\ hWoken[Cur].on /\ hWoken[Cur].key = ReqNow.key
            /\ Live(Cur)
            => Replies(VecReply(hWoken[Cur].val))]_vars

\* A client blocked in get(key) has been woken by a SET of the key and its
\* GET is on its way to the daemon.
C8_Witness ==
  \E c \in Clients :
    /\ pc[c] = "recv" /\ call[c].op = "get" /\ call[c].phase = "get"
    /\ hWoken[storeSocket[c]].on
    /\ hWoken[storeSocket[c]].key = call[c].key
    /\ inbox[storeSocket[c]] = <<[qt |-> "GET", key |-> call[c].key]>>

\* ------------------------------------------------------------- C6

\* The sockets that the overlays w (wait lists), v (watch lists) and a
\* (remaining counts) refer to.
RefsOf(w, v, a) ==
  UNION {Range(w[k]) : k \in DOMAIN w} \cup UNION {Range(v[k]) : k \in DOMAIN v}
    \cup DOMAIN a

NoEmptyBucket(m) == \A k \in DOMAIN m : m[k] # << >>

\* After the step, socket f is recorded as waiting for exactly the absent
\* keys of the list "keys", once per occurrence, and for nothing else.
FreshRecord(f, keys) ==
  /\ Has(keysAwaited', f)
  /\ keysAwaited'[f] = Len(SelectSeq(keys, LAMBDA k : ~Has(tcpStore, k)))
  /\ \A k \in Keys :
       Count(IF Has(waitingSockets', k) THEN waitingSockets'[k] ELSE << >>, f)
         = IF Has(tcpStore, k) THEN 0 ELSE Count(keys, k)

\* C6 (socket-death scrubbing): the overlays refer only to sockets the
\* daemon has open, so once a socket is reaped no wait list, no watch list
\* and no remaining-count refers to it; the reaping leaves no empty bucket
\* in the wait lists or the watch lists; and a connection accepted later,
\* also one that is given the handle of a reaped socket, starts with no
\* record at all, and its WAIT records exactly the keys it has to wait for.
C6_Scrubbed ==
  [][LET refs == RefsOf(waitingSockets', watchedSockets', keysAwaited')
     IN /\ refs \subseteq Range(sockets')
        /\ \A f \in Range(sockets') \ Range(sockets) : f \notin refs
        /\ QueryStep /\ Cur \notin Range(sockets') =>
             NoEmptyBucket(waitingSockets') /\ NoEmptyBucket(watchedSockets')
        /\ QueryStep /\ ReqNow.qt = "WAIT"
             /\ Cur \notin RefsOf(waitingSockets, watchedSockets, keysAwaited)
             /\ ~(KeySet(ReqNow.keys) \subseteq DOMAIN tcpStore) =>
             FreshRecord(Cur, ReqNow.keys)]_vars

\* B has gone with a WAIT pending and has been reaped; C, accepted on the
\* handle B had, has the same WAIT pending.
C6_Witness ==
  /\ pc["B"] = "closed" /\ <<"B", "st">> \in broken
  /\ pc["C"] = "recv" /\ call["C"].op = "wait"
  /\ storeSocket["C"] = storeSocket["B"]
  /\ ncalls = MaxReuseCalls - 2
  /\ tcpStore = EmptyMap /\ keyToCallbacks["B"] = {}
  /\ \A f \in Fds : inbox[f] = << >>
  /\ Has(keysAwaited, storeSocket["C"]) /\ keysAwaited[storeSocket["C"]] = 2
  /\ waitingSockets = [k \in {"/k"} |-> <<storeSocket["C"], storeSocket["C"]>>]

\* ------------------------------------------------------------- C11

\* C11 (DELETE_KEY result): a DELETE_KEY(k) the daemon handles leaves k
\* absent and every other key as it was, and a requester that is there to
\* read is sent 1 if k was present immediately before and 0 otherwise.  So
\* the first DELETE_KEY(k) of a client that follows its own set(k, v), no
\* other connection having changed k, is answered 1 (deleteKey returns
\* numDeleted == 1, true) and the one right after it 0 (false).
C11_DeleteResult ==
  [][QueryStep /\ ReqNow.qt = "DELETE_KEY" =>
       LET k == ReqNow.key
           numDeleted == IF Has(tcpStore, k) THEN 1 ELSE 0
       IN /\ ~Has(tcpStore', k)
          /\ \A j \in Keys \ {k} : Same(j)
          /\ Live(Cur) => Replies(IntReply(numDeleted))
          /\ \A c \in Clients :
               /\ hDel[c].on /\ hDel[c].key = k /\ <<c, "st">> \notin broken
               /\ Cur = storeSocket[c] /\ Live(Cur)
               => Replies(IntReply(IF hDel[c].n = 1 THEN 1 ELSE 0))]_vars

\* A client has called set(k, v) and deleteKey(k) twice, the other key is in
\* the store, and the answer to the second deleteKey, 0, is there to read.
C11_Witness ==
  \E c \in Clients :
    /\ hDel[c].on /\ hDel[c].n = 2
    /\ pc[c] = "recv" /\ call[c].op = "deleteKey"
    /\ outbox[storeSocket[c]] = <<IntReply(0)>>
    /\ DOMAIN tcpStore = Keys \ {hDel[c].key}

\* ------------------------------------------------------------- C12

\* C12 (CHECK is a pure query): a CHECK(keys) from a requester that is there
\* to read is answered in the step that handles it, with READY if every
\* listed key is in the store at that moment (so for the empty list) and with
\* NOT_READY otherwise; nothing is sent to any other socket, and the store
\* map, the wait lists, the remaining-counts and the watch lists are left as
\* they were.  The store map is left alone also when the requester has gone.
C12_CheckPure ==
  [][QueryStep /\ ReqNow.qt = "CHECK" =>
       /\ tcpStore' = tcpStore
       /\ \A f \in Fds \ {Cur} : outbox'[f] = outbox[f]
       /\ Live(Cur) =>
            /\ Replies([t |-> IF \A i \in 1 .. Len(ReqNow.keys) :
                                   Has(tcpStore, ReqNow.keys[i])
                              THEN "READY" ELSE "NOT_READY"])
            /\ UNCHANGED <<waitingSockets, watchedSockets, keysAwaited>>]_vars

\* A CHECK has been answered NOT_READY while one of its keys is in the
\* store and a waiter and a watcher are on record.
C12_Witness ==
  \E c \in Clients :
    /\ pc[c] = "recv" /\ call[c].op = "check"
    /\ outbox[storeSocket[c]] = <<[t |-> "NOT_READY"]>>
    /\ tcpStore # EmptyMap
    /\ waitingSockets # EmptyMap
    /\ \E k \in DOMAIN watchedSockets : watchedSockets[k] # << >>

\* ------------------------------------------------------------- C13

\* The request connection of client c was torn down by a receive timeout.
TimedOut(c) == pc[c] = "timedout"

\* C13 (WAIT timeout teardown): after the receive timeout of a client blocked
\* in WAIT has torn its connection down, the daemon removes that socket from
\* every wait list, the remaining-count map and every watch list, so no later
\* SET or ADD finds it in a wait list; and the other clients keep using the
\* store, their connections surviving their SET and ADD requests.
C13_TimeoutTeardown ==
  [][/\ \A c \in Clients :
          TimedOut(c) /\ <<c, "st">> \in broken' =>
            /\ storeSocket[c] \notin Range(sockets')
            /\ storeSocket[c] \notin
                 RefsOf(waitingSockets', watchedSockets', keysAwaited')
     /\ QueryStep /\ Live(Cur) /\ ReqNow.qt \in {"SET", "ADD"} /\ WroteNow(ReqNow.key)
          => Cur \in Range(sockets')]_vars

\* ------------------------------------------------------------- C14

\* C14 (transport errors close the offending socket): when the daemon
\* handles a SET, an ADD on a key that holds a number or none, or a
\* COMPARE_SET for a requester R that is there to read, a send that fails
\* is a push to some other socket X whose peer has gone; R's connection
\* stays open, and a socket the step closes is one whose peer has gone.
C14_OffenderClosed ==
  [][/\ QueryStep /\ Live(Cur)
     /\ ReqNow.qt \in {"SET", "ADD", "COMPARE_SET"}
     /\ ReqNow.qt = "ADD" /\ Has(tcpStore, ReqNow.key) => Stoll(tcpStore[ReqNow.key]).ok
     => /\ Cur \in Range(sockets')
        /\ \A f \in Range(sockets) \ Range(sockets') : ~peerOpen[f]]_vars

\* ------------------------------------------------------------- C15

\* The list of key k in the overlay m, empty when k has no bucket.
ListOf(m, k) == IF Has(m, k) THEN m[k] ELSE << >>

\* C15 (GET on a missing key): the GET of a key that is absent when the
\* daemon handles it is answered with nothing; the daemon closes the
\* requesting socket and removes it from the wait lists, the watch lists and
\* the remaining-counts; the store map, the other sockets, what has been sent
\* to them and their entries in the overlays are left as they were.
C15_GetMissing ==
  [][QueryStep /\ ReqNow.qt = "GET" /\ ~Has(tcpStore, ReqNow.key) =>
       /\ Pushed(Cur) = << >>
       /\ sockets' = Without(sockets, Cur)
       /\ Cur \notin RefsOf(waitingSockets', watchedSockets', keysAwaited')
       /\ tcpStore' = tcpStore
       /\ \A f \in Fds \ {Cur} :
            /\ outbox'[f] = outbox[f]
            /\ Has(keysAwaited', f) <=> Has(keysAwaited, f)
            /\ Has(keysAwaited, f) => keysAwaited'[f] = keysAwaited[f]
       /\ \A k \in Keys :
            /\ ListOf(waitingSockets', k) = Without(ListOf(waitingSockets, k), Cur)
            /\ ListOf(watchedSockets', k) = Without(ListOf(watchedSockets, k), Cur)]_vars

\* B was woken from the WAIT of its get(k), k was deleted before its GET was
\* handled, and the daemon has closed B's request connection; the other key
\* is still in the store and C is still on record as a waiter.
C15_Witness ==
  /\ pc["B"] = "recv" /\ call["B"].op = "get" /\ call["B"].phase = "get"
  /\ <<"B", "st">> \in broken
  /\ ~Has(tcpStore, call["B"].key)
  /\ storeSocket["C"] \in RefsOf(waitingSockets, watchedSockets, keysAwaited)
  /\ broken = {<<"B", "st">>}

\* ------------------------------------------------------------- C16

\* C16 (shutdown): once stop() has closed the write end of the control pipe
\* the loop of run() is left, whether or not a client sends anything more;
\* when the destructor has joined the thread and gone through sockets_, no
\* socket of the daemon is open and every connection it had is closed; and
\* a second stop() changes nothing of the daemon, the pipe or the network.
C16_Shutdown ==
  /\ (~pipeOpen) ~> (dpc = "done")
  /\ [](pc["A"] = "joined" => dpc = "done" /\ sockets = << >>
                               /\ \A c \in Clients, t \in {"st", "ls"} :
                                    SockOf(<<c, t>>) # NoFd => <<c, t>> \in broken)
  /\ [][pc'["A"] = "stop again" /\ pc["A"] = "stop" =>
         UNCHANGED <<daemonVars, netVars, broken>>]_vars

\* The daemon was shut down with a waiter on record and a request unread,
\* and the destructor has joined the thread and closed the sockets.
C16_Witness ==
  /\ pc["A"] = "joined" /\ dpc = "done" /\ ~pipeOpen
  /\ waitingSockets # EmptyMap
  /\ \E f \in Fds : inbox[f] # << >>
  /\ Cardinality(broken) >= 4

\* ------------------------------------------------------------- C17

\* Client c has sent the ADD of its handshake.
Added(c) == pc[c] \notin {"init", "connecting"} /\ ~(pc[c] = "ctor" /\ call[c] = NoCall)

\* The ADD of c's handshake has not been handled yet.
AddPending(c) ==
  /\ Added(c) /\ pc[c] = "hs"
  /\ \E i \in 1 .. Len(inbox[storeSocket[c]]) : inbox[storeSocket[c]][i].qt = "ADD"

\* The integer value of the rendezvous counter, 0 while the key is absent.
InitCount == IF Has(tcpStore, InitKey) THEN Stoll(tcpStore[InitKey]).val ELSE 0

\* C17 (rendezvous): the counter init/ holds the number of participants
\* whose handshake ADD has been handled, each having added 1 once; a worker
\* never waits in its handshake, it returns when its ADD is answered; the
\* server's handshake returns only when the counter has reached numWorkers
\* or the timeout has expired; and once numWorkers participants have sent
\* their ADD, the server's handshake returns.
C17_Rendezvous ==
  /\ [](InitCount = Cardinality({c \in Clients : Added(c) /\ ~AddPending(c)}))
  /\ [](\A c \in Workers :
          /\ call[c].phase \notin {"wait", "get", "timeout"}
          /\ pc[c] = "hs" => \A i \in 1 .. Len(inbox[storeSocket[c]]) :
                                inbox[storeSocket[c]][i].qt = "ADD")
  /\ [][pc["A"] = "hs" /\ pc'["A"] = "ctor" =>
         \/ call'["A"].phase = "done" /\ InitCount >= NumWorkers
         \/ call'["A"].phase = "timeout"]_vars
  /\ (\A c \in Clients : Added(c)) ~> (pc["A"] # "hs" /\ Added("A"))

\* All participants are in, the server has read the full count and its
\* handshake has returned for that reason.
C17_Witness ==
  /\ call["A"].op = "waitForWorkers" /\ call["A"].phase = "done"
  /\ Has(tcpStore, InitKey) /\ tcpStore[InitKey] = to_string(NumWorkers)
  /\ \A c \in Workers : pc[c] = "idle"

\* ------------------------------------------------------------- C18

RECURSIVE Occurrences(_, _, _)
\* How often socket f stands in the wait lists of the keys ks of m.
Occurrences(m, ks, f) ==
  IF ks = {} THEN 0
  ELSE LET k == CHOOSE x \in ks : TRUE
       IN Count(m[k], f) + Occurrences(m, ks \ {k}, f)

\* C18 (wait-record invariant): between two handlers, a socket S whose
\* remaining count is N > 0 stands exactly N times in the wait lists, each
\* time under a key its WAIT named and that nothing has written since.
C18_WaitRecord ==
  \A f \in DOMAIN keysAwaited :
    keysAwaited[f] > 0 =>
      /\ Occurrences(waitingSockets, DOMAIN waitingSockets, f) = keysAwaited[f]
      /\ \A k \in DOMAIN waitingSockets :
           f \in Range(waitingSockets[k]) => hWait[f].on /\ k \in hWait[f].left

\* ------------------------------------------------------------- C19

\* C19 (wait record cleared on completion): when a SET or an ADD sends
\* STOP_WAITING to a waiting socket, the socket is in no wait list
\* afterwards and the map of remaining counts has no entry for it.
C19_RecordCleared ==
  [][\A f \in Fds :
       QueryStep /\ ReqNow.qt \in {"SET", "ADD"} /\ StopSentNow(f) =>
         /\ \A k \in DOMAIN waitingSockets' : f \notin Range(waitingSockets'[k])
         /\ ~Has(keysAwaited', f)]_vars

\* ------------------------------------------------------------- C20

\* The statement with the shutdown signal examined first: the pass of the
\* loop that sees the signal accepts no connection.
C20_ShutdownFirst ==
  [][dpc = "poll" /\ dpc' = "done" => sockets' = sockets /\ backlog' = backlog]_vars

\* C20 (event-loop step order): in each pass of the daemon loop the
\* listening socket is examined first, then the shutdown signal, then the
\* client sockets.  A pass accepts at most one connection, the one at the
\* head of the backlog; the pass that sees the shutdown signal still accepts
\* it, then leaves the loop without dispatching any request, and nothing is
\* dispatched afterwards; any other pass dispatches one request for each
\* socket that was ready when poll returned, each such socket once, and
\* not for the socket it has just accepted.
C20_StepOrder ==
  /\ [](\A i, j \in 1 .. Len(todo) : i # j => todo[i] # todo[j])
  /\ [][/\ Len(sockets') > Len(sockets) =>
           /\ dpc = "poll" /\ backlog # << >>
           /\ Len(sockets') = Len(sockets) + 1
           /\ backlog' = Tail(backlog)
        /\ dpc = "poll" /\ dpc' = "done" =>
           /\ ~pipeOpen
           /\ backlog # << >> => sockets' # sockets /\ backlog' = Tail(backlog)
           /\ todo' = << >>
           /\ UNCHANGED <<tcpStore, waitingSockets, watchedSockets, keysAwaited,
                          inbox, outbox>>
        /\ dpc = "poll" /\ dpc' = "query" =>
           /\ pipeOpen
           /\ todo' = SelectSeq(sockets, Ready)
        /\ dpc = "poll" /\ ~pipeOpen /\ sockets' # sockets => dpc' = "done"
        /\ QueryStep =>
           /\ \A f \in Fds \ {Cur} : inbox'[f] = inbox[f]
           /\ Cur \in Range(sockets') => Len(inbox'[Cur]) >= Len(inbox[Cur]) - 1
        /\ dpc = "done" =>
           /\ dpc' = "done"
           /\ UNCHANGED <<tcpStore, waitingSockets, watchedSockets, keysAwaited>>
           /\ \A f \in Fds : /\ Len(inbox'[f]) >= Len(inbox[f])
                             /\ Len(outbox'[f]) <= Len(outbox[f])]_vars

\* The loop has been left by a pass that accepted a connection first, and
\* a request that was ready in that pass is still unread.
C20_Witness ==
  /\ dpc = "done"
  /\ hShut # NoFd /\ hShut \in Range(sockets)
  /\ \E f \in Range(sockets) : inbox[f] # << >>

\* ------------------------------------------------------------- C21

\* C21 (DELETE_KEY effect on the overlays): a DELETE_KEY(k) the daemon
\* handles leaves k without a watch list, so that no socket subscribed
\* before it is notified of a later SET or ADD of k, and it leaves every
\* wait list and every remaining count as it was.
C21_DeleteOverlays ==
  [][QueryStep /\ ReqNow.qt = "DELETE_KEY" =>
       /\ ~Has(watchedSockets', ReqNow.key)
       /\ waitingSockets' = waitingSockets
       /\ keysAwaited' = keysAwaited]_vars

\* ------------------------------------------------------------- C22

\* C22 (callback published before subscription): every KEY_UPDATED frame
\* the listener thread receives names a key whose entry it finds in the
\* callback table, in every interleaving of the main thread, the listener
\* thread and the daemon.
C22_CallbackFound == \A c \in Clients : hCb[c] # "out_of_range"

\* ------------------------------------------------------------- C23

\* C23 (no waiter on a present key): between two handlers, a key that is
\* in the store has no wait list.
C23_NoWaiterOnPresentKey == \A k \in DOMAIN tcpStore : ~Has(waitingSockets, k)

====
